---- MODULE Spec2Model ----
(***************************************************************************)
(* JSONQuery (src/jsonquery.py): the path parser and evaluator, the filter *)
(* parser and evaluator, the minimal YAML parser and the numeric           *)
(* collector, as pure functions applied to inputs drawn from bounded sets. *)
(*                                                                         *)
(* A Python str is a sequence of one-character strings.  A Python value is *)
(* a record [k |-> kind, v |-> payload]:                                   *)
(*   "null"  None (v = 0)          "bool"  True / False (v \in BOOLEAN)    *)
(*   "int"   v an integer          "float" v = <<m, e>>, the number m/10^e *)
(*   "str"   v a character seq.    "list"  v a sequence of values          *)
(*   "dict"  v a sequence of <<key, value>> pairs in insertion order       *)
(* The code has one value, None, both for JSON null and for "not found".   *)
(***************************************************************************)
EXTENDS Integers, Sequences, FiniteSets, TLC

VARIABLES pc, arg, loc, ret

vars == <<pc, arg, loc, ret>>

(***************************************************************************)
(* Bounds of the input sets.                                               *)
(***************************************************************************)
MaxLen == 2

MaxLines == 3

MaxPathChars == 3

(***************************************************************************)
(* Characters and str methods.                                             *)
(***************************************************************************)
Digits == <<"0", "1", "2", "3", "4", "5", "6", "7", "8", "9">>

UpperCase == <<"A", "B", "C", "D", "E", "F", "G", "H", "I", "J", "K", "L", "M",
               "N", "O", "P", "Q", "R", "S", "T", "U", "V", "W", "X", "Y", "Z">>

LowerCase == <<"a", "b", "c", "d", "e", "f", "g", "h", "i", "j", "k", "l", "m",
               "n", "o", "p", "q", "r", "s", "t", "u", "v", "w", "x", "y", "z">>

\* The characters of the model's inputs, in code point order (str ordering).
CharOrder == <<"\t", "\n", " ", "!", "\"", "#", "'", "*", "+", "-", ".">>
             \o Digits \o <<":", "<", "=", ">", "@">> \o UpperCase
             \o <<"[", "]", "_">> \o LowerCase \o <<"~">>

Range(s) == {s[i] : i \in 1..Len(s)}

IndexOf(seq, c) == CHOOSE i \in 1..Len(seq) : seq[i] = c

Ord(c) == IndexOf(CharOrder, c)

IsDigit(c) == c \in Range(Digits)

DigitVal(c) == IndexOf(Digits, c) - 1

IsSpace(c) == c \in {" ", "\t", "\n"}

LowerChar(c) == IF c \in Range(UpperCase) THEN LowerCase[IndexOf(UpperCase, c)] ELSE c

\* str.lower()
Lower(s) == [i \in 1..Len(s) |-> LowerChar(s[i])]

\* s[a:b] with 0 <= a and b <= len(s), as Python slices (0-based, b excluded)
Slice(s, a, b) == IF b <= a THEN <<>> ELSE SubSeq(s, a + 1, b)

RECURSIVE LStrip(_)
\* str.lstrip()
LStrip(s) == IF s # <<>> /\ IsSpace(Head(s)) THEN LStrip(Tail(s)) ELSE s

RECURSIVE RStrip(_)
\* str.rstrip()
RStrip(s) ==
    IF s # <<>> /\ IsSpace(s[Len(s)]) THEN RStrip(SubSeq(s, 1, Len(s) - 1)) ELSE s

\* str.strip()
Strip(s) == RStrip(LStrip(s))

\* str.startswith(p)
StartsWith(s, p) == Len(p) <= Len(s) /\ SubSeq(s, 1, Len(p)) = p

\* str.endswith(p)
EndsWith(s, p) == Len(p) <= Len(s) /\ SubSeq(s, Len(s) - Len(p) + 1, Len(s)) = p

\* The 0-based positions at which p occurs in s.
Occurrences(s, p) ==
    {i \in 0..(Len(s) - Len(p)) : SubSeq(s, i + 1, i + Len(p)) = p}

\* p in s
Contains(s, p) == Occurrences(s, p) # {}

Min(S) == CHOOSE x \in S : \A y \in S : x <= y

\* str.find(p)
Find(s, p) == Min(Occurrences(s, p))

\* s.split(p, 1) when p occurs in s: the parts before and after the first p
Split1(s, p) ==
    LET i == Find(s, p)
    IN  <<Slice(s, 0, i), Slice(s, i + Len(p), Len(s))>>

RECURSIVE SplitAll(_, _)
\* s.split(p)
SplitAll(s, p) ==
    IF Contains(s, p)
    THEN CHOOSE parts \in {<<cut[1]>> \o SplitAll(cut[2], p) :
                              cut \in {Split1(s, p)}} : TRUE
    ELSE <<s>>

(***************************************************************************)
(* Python values.                                                          *)
(***************************************************************************)
None == [k |-> "null", v |-> 0]

PyBool(b) == [k |-> "bool", v |-> b]

PyInt(n) == [k |-> "int", v |-> n]

RECURSIVE Normal(_, _)
\* m/10^e with the trailing zeros of the fraction removed
Normal(m, e) == IF e > 0 /\ m % 10 = 0 THEN Normal(m \div 10, e - 1) ELSE <<m, e>>

PyFloat(m, e) == [k |-> "float", v |-> Normal(m, e)]

PyStr(s) == [k |-> "str", v |-> s]

PyList(s) == [k |-> "list", v |-> s]

PyDict(s) == [k |-> "dict", v |-> s]

\* key in d
HasKey(d, key) == \E i \in 1..Len(d.v) : d.v[i][1] = key

\* d[key]
Get(d, key) == d.v[CHOOSE i \in 1..Len(d.v) : d.v[i][1] = key][2]

\* d[key] = val: an existing key keeps its place
DictSet(d, key, val) ==
    IF HasKey(d, key)
    THEN PyDict([i \in 1..Len(d.v) |->
                    IF d.v[i][1] = key THEN <<key, val>> ELSE d.v[i]])
    ELSE PyDict(Append(d.v, <<key, val>>))

\* isinstance(x, (int, float)): bool is a subclass of int
IsNumber(x) == x.k \in {"bool", "int", "float"}

\* x is None
IsNone(x) == x.k = "null"

RECURSIVE Pow10(_)
Pow10(n) == IF n = 0 THEN 1 ELSE 10 * Pow10(n - 1)

\* The numeric value m/10^e of a bool, an int or a float, as <<m, e>>.
NumVal(x) ==
    CASE x.k = "bool"  -> <<IF x.v THEN 1 ELSE 0, 0>>
      [] x.k = "int"   -> <<x.v, 0>>
      [] x.k = "float" -> x.v

NumLess(x, y) ==
    NumVal(x)[1] * Pow10(NumVal(y)[2]) < NumVal(y)[1] * Pow10(NumVal(x)[2])

NumEqual(x, y) ==
    NumVal(x)[1] * Pow10(NumVal(y)[2]) = NumVal(y)[1] * Pow10(NumVal(x)[2])

RECURSIVE StrLess(_, _)
\* s < t on str: lexicographic by code point
StrLess(s, t) ==
    IF t = <<>> THEN FALSE
    ELSE IF s = <<>> THEN TRUE
    ELSE IF Head(s) # Head(t) THEN Ord(Head(s)) < Ord(Head(t))
    ELSE StrLess(Tail(s), Tail(t))

RECURSIVE PyEq(_, _)
\* a == b
PyEq(a, b) ==
    IF IsNumber(a) /\ IsNumber(b) THEN NumEqual(a, b)
    ELSE IF a.k # b.k THEN FALSE
    ELSE CASE a.k = "null" -> TRUE
           [] a.k = "str"  -> a.v = b.v
           [] a.k = "list" -> /\ Len(a.v) = Len(b.v)
                              /\ \A i \in 1..Len(a.v) : PyEq(a.v[i], b.v[i])
           [] a.k = "dict" -> /\ Len(a.v) = Len(b.v)
                              /\ \A i \in 1..Len(a.v) :
                                    /\ HasKey(b, a.v[i][1])
                                    /\ PyEq(a.v[i][2], Get(b, a.v[i][1]))

\* The answer of an ordering operator when a is less than / equal to b.
OrderAnswer(op, less, equal) ==
    CASE op = "<"  -> less
      [] op = ">"  -> ~less /\ ~equal
      [] op = "<=" -> less \/ equal
      [] op = ">=" -> ~less

RECURSIVE PyOrder(_, _, _)
\* a op b for op in <, >, <=, >=: "True", "False", or "TypeError" when Python
\* raises TypeError ('<' not supported between instances of ...)
PyOrder(a, op, b) ==
    IF IsNumber(a) /\ IsNumber(b)
    THEN IF OrderAnswer(op, NumLess(a, b), NumEqual(a, b)) THEN "True" ELSE "False"
    ELSE IF a.k = "str" /\ b.k = "str"
    THEN IF OrderAnswer(op, StrLess(a.v, b.v), a.v = b.v) THEN "True" ELSE "False"
    ELSE IF a.k = "list" /\ b.k = "list"
    THEN LET n == IF Len(a.v) < Len(b.v) THEN Len(a.v) ELSE Len(b.v)
             differ == {i \in 1..n : ~PyEq(a.v[i], b.v[i])}
         IN  IF differ # {}
             THEN PyOrder(a.v[Min(differ)], op, b.v[Min(differ)])
             ELSE IF OrderAnswer(op, Len(a.v) < Len(b.v), Len(a.v) = Len(b.v))
                  THEN "True" ELSE "False"
    ELSE "TypeError"

(***************************************************************************)
(* int(s) and float(s) on a stripped str.  The model's inputs hold no      *)
(* underscore digit separators, exponents, "inf" or "nan".                 *)
(***************************************************************************)
Unsigned(s) == IF s # <<>> /\ Head(s) \in {"+", "-"} THEN Tail(s) ELSE s

AllDigits(s) == \A i \in 1..Len(s) : IsDigit(s[i])

RECURSIVE DigitsValue(_)
DigitsValue(s) ==
    IF s = <<>> THEN 0
    ELSE 10 * DigitsValue(SubSeq(s, 1, Len(s) - 1)) + DigitVal(s[Len(s)])

Signed(s, n) == IF s # <<>> /\ Head(s) = "-" THEN 0 - n ELSE n

\* int(s) does not raise ValueError
IntParses(s) == Unsigned(Strip(s)) # <<>> /\ AllDigits(Unsigned(Strip(s)))

\* int(s)
IntOf(s) == Signed(Strip(s), DigitsValue(Unsigned(Strip(s))))

\* float(s) does not raise ValueError, for s with a '.' in it
FloatParses(s) ==
    LET u == Unsigned(Strip(s))
    IN  /\ Contains(u, <<".">>)
        /\ AllDigits(Split1(u, <<".">>)[1])
        /\ AllDigits(Split1(u, <<".">>)[2])
        /\ Len(u) > 1

\* float(s), for s with a '.' in it
FloatOf(s) ==
    LET u == Unsigned(Strip(s))
        whole == Split1(u, <<".">>)[1]
        frac == Split1(u, <<".">>)[2]
    IN  PyFloat(Signed(Strip(s), DigitsValue(whole \o frac)), Len(frac))

(***************************************************************************)
(* parse_query_path: a path component is a str (a field name, or '*') or   *)
(* an int.                                                                 *)
(***************************************************************************)
Wildcard == PyStr(<<"*">>)

\* lines 180-183: the 0-based position of the next ']' after the '[' at i, or len(path)
BracketEnd(path, i) ==
    Min({j \in (i + 1)..Len(path) : j = Len(path) \/ path[j + 1] = "]"})

\* lines 184-190: the component of a bracket's content
BracketComponent(index_str) ==
    IF index_str = <<"*">> THEN Wildcard
    ELSE IF IntParses(index_str) THEN PyInt(IntOf(index_str))
    ELSE PyStr(index_str)

\* Mutant of Flush: the identifier is appended even when it is empty.
FlushAlways(components, current) == Append(components, PyStr(current))

\* lines 172-174, 176-178, 197-198: append a non-empty identifier
Flush(components, current) ==
    IF current # <<>> THEN Append(components, PyStr(current)) ELSE components

RECURSIVE PathLoop(_, _, _, _)
\* lines 168-200: the loop from position i (0-based), and the final flush
PathLoop(path, i, components, current) ==
    IF i >= Len(path) THEN Flush(components, current)
    ELSE LET char == path[i + 1]
         IN  IF char = "."
             THEN PathLoop(path, i + 1, Flush(components, current), <<>>)
             ELSE IF char = "["
             THEN LET j == BracketEnd(path, i)
                      index_str == Slice(path, i + 1, j)
                  IN  PathLoop(path, j + 1,
                               Append(Flush(components, current),
                                      BracketComponent(index_str)),
                               <<>>)
             ELSE PathLoop(path, i + 1, components, Append(current, char))

parse_query_path(path) == PathLoop(path, 0, <<>>, <<>>)

(***************************************************************************)
(* query_data                                                              *)
(***************************************************************************)
\* data[component] raises IndexError
IndexError(data, component) ==
    component >= Len(data.v) \/ component < 0 - Len(data.v)

\* data[component] for a list, a negative index counting from the end
ListItem(data, component) ==
    IF component >= 0 THEN data.v[component + 1]
    ELSE data.v[Len(data.v) + component + 1]

RECURSIVE query_data(_, _)
RECURSIVE WildcardResults(_, _, _)
RECURSIVE KeyResults(_, _, _, _)

\* lines 217-221: the results of the items from the i-th on
WildcardResults(items, i, remaining) ==
    IF i > Len(items) THEN <<>>
    ELSE LET result == query_data(items[i], remaining)
         IN  (IF ~IsNone(result) THEN <<result>> ELSE <<>>)
                 \o WildcardResults(items, i + 1, remaining)

\* lines 242-247: the results of the dict items holding the key, from the i-th on
KeyResults(items, i, component, remaining) ==
    IF i > Len(items) THEN <<>>
    ELSE LET item == items[i]
             result == query_data(Get(item, component.v), remaining)
             kept == /\ item.k = "dict"
                     /\ component.k = "str"
                     /\ HasKey(item, component.v)
                     /\ ~IsNone(result)
         IN  (IF kept THEN <<result>> ELSE <<>>)
                 \o KeyResults(items, i + 1, component, remaining)

query_data(data, path) ==
    IF path = <<>> THEN data
    ELSE LET component == Head(path)
             remaining == Tail(path)
         IN  IF component.k = "str" /\ component.v = <<"*">>
             THEN IF data.k = "list"
                  THEN LET results == WildcardResults(data.v, 1, remaining)
                       IN  IF results # <<>> THEN PyList(results) ELSE None
                  ELSE None
             ELSE IF data.k = "dict"
             THEN IF component.k = "str" /\ HasKey(data, component.v)
                  THEN query_data(Get(data, component.v), remaining)
                  ELSE None
             ELSE IF data.k = "list"
             THEN IF component.k = "int"
                  THEN IF IndexError(data, component.v) THEN None
                       ELSE query_data(ListItem(data, component.v), remaining)
                  ELSE LET results == KeyResults(data.v, 1, component, remaining)
                       IN  IF results # <<>> THEN PyList(results) ELSE None
             ELSE None

(***************************************************************************)
(* Input sets.                                                             *)
(***************************************************************************)
\* The sequences over S of length at most n.
SeqsUpTo(S, n) == UNION {[1..m -> S] : m \in 0..n}

KeyA == <<"a">>

KeyB == <<"b">>

\* A key no document holds.
MissingKey == <<"z", "z">>

Leaves == {None, PyInt(1), PyStr(<<"x">>)}

Items ==
    Leaves
    \cup {PyDict(<<<<KeyA, l>>>>) : l \in Leaves}
    \cup {PyList(<<l>>) : l \in Leaves}
    \cup {PyList(<<>>), PyDict(<<>>)}

QueryDocs ==
    Items
    \cup {PyList(s) : s \in SeqsUpTo(Items, MaxLen)}
    \cup {PyDict(<<<<KeyA, PyList(s)>>>>) : s \in SeqsUpTo(Leaves, MaxLen)}
    \cup {PyDict(<<<<KeyA, l>>, <<KeyB, m>>>>) : l \in Leaves, m \in Leaves}

Queries ==
    { <<"a">>, <<"b">>, <<"z", "z">>, <<"a", ".", "b">>,
      <<"[", "*", "]">>, <<"[", "*", "]", ".", "a">>, <<"a", "[", "*", "]">>,
      <<"[", "*", "]", "[", "0", "]">>, <<"[", "*", "]", "[", "*", "]">>,
      <<"[", "0", "]">>, <<"[", "1", "]">>, <<"[", "2", "]">>, <<"[", "3", "]">>,
      <<"[", "-", "1", "]">>, <<"[", "-", "4", "]">>,
      <<"a", "[", "0", "]">>, <<"[", "0", "]", ".", "a">>,
      <<"[", "1", "]", "[", "0", "]">> }

(***************************************************************************)
(* main, lines 538-543: the query string is parsed, then evaluated.        *)
(***************************************************************************)
InitQuery ==
    /\ pc = "query"
    /\ arg \in [data : QueryDocs, query : Queries]
    /\ loc = <<>>
    /\ ret = None

ParsePath ==
    /\ pc = "query"
    /\ loc' = [path |-> parse_query_path(arg.query)]
    /\ pc' = "parsed"
    /\ UNCHANGED <<arg, ret>>

QueryData ==
    /\ pc = "parsed"
    /\ ret' = query_data(arg.data, loc.path)
    /\ pc' = "queried"
    /\ UNCHANGED <<arg, loc>>

NextQuery == ParsePath \/ QueryData

SpecQuery == InitQuery /\ [][NextQuery]_vars

(***************************************************************************)
(* Claims about query_data.                                                *)
(***************************************************************************)
Queried == pc = "queried" /\ loc.path # <<>>

IsWildcard(c) == c.k = "str" /\ c.v = <<"*">>

RECURSIVE Located(_, _)
\* The path leads to a value of v ("not absent"): an explicit null that the
\* path leads to is located.
Located(v, path) ==
    IF path = <<>> THEN TRUE
    ELSE LET c == Head(path)
             rest == Tail(path)
         IN  IF IsWildcard(c)
             THEN v.k = "list" /\ \E i \in 1..Len(v.v) : Located(v.v[i], rest)
             ELSE IF v.k = "dict"
             THEN c.k = "str" /\ HasKey(v, c.v) /\ Located(Get(v, c.v), rest)
             ELSE IF v.k = "list"
             THEN IF c.k = "int"
                  THEN /\ 0 <= c.v
                       /\ c.v < Len(v.v)
                       /\ Located(v.v[c.v + 1], rest)
                  ELSE \E i \in 1..Len(v.v) :
                          /\ v.v[i].k = "dict"
                          /\ HasKey(v.v[i], c.v)
                          /\ Located(Get(v.v[i], c.v), rest)
             ELSE FALSE

RECURSIVE LocatedResults(_, _, _)
\* The results of rest on the items from the i-th on that are not absent, in order.
LocatedResults(items, i, rest) ==
    IF i > Len(items) THEN <<>>
    ELSE (IF Located(items[i], rest) THEN <<query_data(items[i], rest)>> ELSE <<>>)
             \o LocatedResults(items, i + 1, rest)

NoNegativeIndex(path) == \A i \in 1..Len(path) : path[i].k = "int" => path[i].v >= 0

\* C1: [Wildcard] + rest on a Sequence yields, in order, the results of rest on
\* its elements that are not absent, a located explicit null being kept; the
\* result is absent iff there is none; Wildcard on a non-Sequence is absent.
\* (Stated for rest without negative indices.)
C1_WildcardDistributes ==
    (Queried /\ IsWildcard(Head(loc.path)) /\ NoNegativeIndex(loc.path)) =>
        IF arg.data.k = "list"
        THEN LET kept == LocatedResults(arg.data.v, 1, Tail(loc.path))
             IN  IF kept = <<>> THEN IsNone(ret)
                 ELSE ret.k = "list" /\ ret.v = kept
        ELSE IsNone(ret)

\* C2: for a Mapping m and a key k, the result of [Field(k)] is m[k] when k is
\* present and absent when it is not, and the result for a key whose value is
\* an explicit null differs from the result for a key that is not in m.
C2_AbsentIsNotNull ==
    (/\ Queried
     /\ arg.data.k = "dict"
     /\ Len(loc.path) = 1
     /\ loc.path[1].k = "str"
     /\ ~IsWildcard(loc.path[1])) =>
        LET m == arg.data
            key == loc.path[1].v
        IN  /\ HasKey(m, key) => ret = Get(m, key)
            /\ ~HasKey(m, key) => IsNone(ret)
            /\ (HasKey(m, key) /\ IsNone(Get(m, key))) =>
                   ret # query_data(m, <<PyStr(MissingKey)>>)

\* C6: for a Sequence s of length n and an Index i, the result is rest applied
\* to s[i] when 0 <= i < n, and absent when i is out of range, a negative
\* index included.
C6_IndexBoundsChecked ==
    (Queried /\ arg.data.k = "list" /\ Head(loc.path).k = "int") =>
        LET i == Head(loc.path).v
        IN  IF 0 <= i /\ i < Len(arg.data.v)
            THEN ret = query_data(arg.data.v[i + 1], Tail(loc.path))
            ELSE IsNone(ret)

(***************************************************************************)
(* parse_filter_value, check_condition, filter_data                        *)
(***************************************************************************)
DoubleQuote == <<"\"">>

SingleQuote == <<"'">>

WordTrue == <<"t", "r", "u", "e">>

WordFalse == <<"f", "a", "l", "s", "e">>

WordNull == <<"n", "u", "l", "l">>

WordNone == <<"n", "o", "n", "e">>

\* lines 321-328: the number of the value, or the value itself
NumberOrStr(value) ==
    IF Contains(value, <<".">>)
    THEN IF FloatParses(value) THEN FloatOf(value) ELSE PyStr(value)
    ELSE IF IntParses(value) THEN PyInt(IntOf(value)) ELSE PyStr(value)

\* Mutant of IsTrueLiteral: the comparison without lower().
IsTrueLiteralExact(value) == value = WordTrue

\* line 311: value.lower() == 'true'
IsTrueLiteral(value) == Lower(value) = WordTrue

\* line 313: value.lower() == 'false'
IsFalseLiteral(value) == Lower(value) = WordFalse

\* lines 306-307: the value starts and ends with the same quote character
IsQuoted(value) ==
    \/ StartsWith(value, DoubleQuote) /\ EndsWith(value, DoubleQuote)
    \/ StartsWith(value, SingleQuote) /\ EndsWith(value, SingleQuote)

parse_filter_value(raw) ==
    LET value == Strip(raw)
    IN  IF IsQuoted(value) THEN PyStr(Slice(value, 1, Len(value) - 1))
        ELSE IF IsTrueLiteral(value) THEN PyBool(TRUE)
        ELSE IF IsFalseLiteral(value) THEN PyBool(FALSE)
        ELSE IF Lower(value) \in {WordNull, WordNone} THEN None
        ELSE NumberOrStr(value)

\* re.search(pattern, string) is not None, for a pattern of literal characters
\* (the model's patterns hold no regex metacharacter)
re_search(pattern, string) == Contains(string, pattern)

OpEq == <<"=", "=">>

OpNe == <<"!", "=">>

OpGe == <<">", "=">>

OpLe == <<"<", "=">>

OpGt == <<">">>

OpLt == <<"<">>

OpMatch == <<"~">>

\* The TLA+ name of an ordering operator.
OrderName(operator) ==
    CASE operator = OpGt -> ">"
      [] operator = OpLt -> "<"
      [] operator = OpGe -> ">="
      [] operator = OpLe -> "<="

\* lines 334-349: what the try block does: returns "True" or "False", raises
\* "TypeError", or falls through to line 353 ("NoReturn")
ConditionTry(item_value, operator, filter_value) ==
    IF operator = OpEq
    THEN IF PyEq(item_value, filter_value) THEN "True" ELSE "False"
    ELSE IF operator = OpNe
    THEN IF PyEq(item_value, filter_value) THEN "False" ELSE "True"
    ELSE IF operator \in {OpGt, OpLt, OpGe, OpLe}
    THEN PyOrder(item_value, OrderName(operator), filter_value)
    ELSE IF operator = OpMatch
    THEN IF item_value.k = "str" /\ filter_value.k = "str"
         THEN IF re_search(filter_value.v, item_value.v) THEN "True" ELSE "False"
         ELSE "NoReturn"
    ELSE "NoReturn"

\* lines 350-353: the outcome of the call: "True" or "False" returned, or the
\* name of an exception that leaves the function
check_condition_outcome(item_value, operator, filter_value) ==
    LET r == ConditionTry(item_value, operator, filter_value)
    IN  IF r \in {"TypeError", "AttributeError"} THEN "False"
        ELSE IF r = "NoReturn" THEN "False"
        ELSE r

check_condition(item_value, operator, filter_value) ==
    check_condition_outcome(item_value, operator, filter_value) = "True"

\* Mutant of operators: the one-character > and < tried before >= and <=.
operators_prefix_first == <<OpEq, OpNe, OpGt, OpLt, OpGe, OpLe, OpMatch>>

\* line 266
operators == <<OpEq, OpNe, OpGe, OpLe, OpGt, OpLt, OpMatch>>

RECURSIVE FilterScan(_, _)
\* lines 271-277: the loop from the i-th operator on; operator <<>> is None
FilterScan(filter_expr, i) ==
    IF i > Len(operators) THEN [operator |-> <<>>, key |-> <<>>, value |-> <<>>]
    ELSE IF Contains(filter_expr, operators[i])
    THEN [operator |-> operators[i],
          key |-> Strip(Split1(filter_expr, operators[i])[1]),
          value |-> Strip(Split1(filter_expr, operators[i])[2])]
    ELSE FilterScan(filter_expr, i + 1)

\* lines 265-283: the locals after the filter expression is parsed
filter_locals(filter_expr) ==
    LET f == FilterScan(filter_expr, 1)
    IN  [operator |-> f.operator, key |-> f.key, value |-> f.value,
         parsed_value |-> IF f.operator = <<>> THEN None
                          ELSE parse_filter_value(f.value)]

\* lines 289-291: the item is kept
ItemKept(item, f) ==
    /\ item.k = "dict"
    /\ HasKey(item, f.key)
    /\ check_condition(Get(item, f.key), f.operator, f.parsed_value)

RECURSIVE Filtered(_, _, _)
\* lines 287-292: the kept items from the i-th on
Filtered(items, i, f) ==
    IF i > Len(items) THEN <<>>
    ELSE (IF ItemKept(items[i], f) THEN <<items[i]>> ELSE <<>>)
             \o Filtered(items, i + 1, f)

\* Mutant of apply_filter: an empty filtered list is returned as None.
apply_filter_empty_none(data, f) ==
    IF data.k = "list"
    THEN IF Filtered(data.v, 1, f) = <<>> THEN None
         ELSE PyList(Filtered(data.v, 1, f))
    ELSE IF data.k = "dict" /\ HasKey(data, f.key)
              /\ check_condition(Get(data, f.key), f.operator, f.parsed_value)
    THEN data
    ELSE None

\* lines 286-298
apply_filter(data, f) ==
    IF data.k = "list" THEN PyList(Filtered(data.v, 1, f))
    ELSE IF data.k = "dict" /\ HasKey(data, f.key)
              /\ check_condition(Get(data, f.key), f.operator, f.parsed_value)
    THEN data
    ELSE None

filter_data(data, filter_expr) ==
    IF filter_expr = <<>> THEN data
    ELSE IF filter_locals(filter_expr).operator = <<>> THEN data
    ELSE apply_filter(data, filter_locals(filter_expr))

(***************************************************************************)
(* main, lines 551-553: the filter is applied to the data.                 *)
(***************************************************************************)
KeyAge == <<"a", "g", "e">>

FilterKeys == {KeyAge, KeyA}

\* Raw literals: 25, 2.5, true, True, null, x, "x"
FilterRaws ==
    { <<"2", "5">>, <<"2", ".", "5">>, WordTrue, <<"T", "r", "u", "e">>,
      WordNull, <<"x">>, <<"\"", "x", "\"">> }

Spacings == {<<>>, <<" ">>}

\* key OP literal
Compose(key, sp, op, raw) == key \o sp \o op \o sp \o raw

\* Filter strings that are not of the form key OP literal: the empty string,
\* no operator (age, age = 1), and several operators in one string.
OtherFilters ==
    { <<>>,
      KeyAge,
      KeyAge \o <<" ", "=", " ", "1">>,
      KeyAge \o <<" ", ">", "=", " ", "2", "5", " ", "=", "=", " ", "x">>,
      KeyAge \o <<" ", "~", " ", "x", " ", ">", " ", "1">>,
      KeyAge \o <<" ", "<", " ", "3", "0", " ", "<", "=", " ", "1">>,
      KeyAge \o <<" ", "!", "=", " ", "1", " ", "!", "=", " ", "2">>,
      KeyAge \o <<" ", "=", ">", " ", "1">> }

FilterExprs ==
    {Compose(key, sp, operators[i], raw) :
        key \in FilterKeys, sp \in Spacings, i \in 1..Len(operators),
        raw \in FilterRaws}
    \cup OtherFilters

FilterLeaves ==
    {None, PyBool(TRUE), PyInt(1), PyInt(30), PyFloat(25, 1), PyStr(<<"x">>)}

FilterItems ==
    {PyDict(<<<<KeyAge, l>>>>) : l \in FilterLeaves}
    \cup {PyDict(<<<<KeyA, PyInt(30)>>>>), PyDict(<<>>), PyInt(30)}

FilterDocs == FilterItems \cup {PyList(s) : s \in SeqsUpTo(FilterItems, MaxLen)}

InitFilter ==
    /\ pc = "filter"
    /\ arg \in [data : FilterDocs, filter_expr : FilterExprs]
    /\ loc = <<>>
    /\ ret = None

FilterData ==
    /\ pc = "filter"
    /\ loc' = filter_locals(arg.filter_expr)
    /\ ret' = filter_data(arg.data, arg.filter_expr)
    /\ pc' = "filtered"
    /\ UNCHANGED arg

NextFilter == FilterData

SpecFilter == InitFilter /\ [][NextFilter]_vars

(***************************************************************************)
(* Claims about filter_data.                                               *)
(***************************************************************************)
\* C4: with a recognised operator, a Sequence is filtered to the sub-sequence,
\* in order, of its elements that are Mappings holding the key whose value
\* satisfies the comparison (an empty Sequence when none is kept); a Mapping is
\* returned unchanged when it holds the key and satisfies the comparison and
\* is absent otherwise; any other data is absent.
C4_FilterShape ==
    (pc = "filtered" /\ loc.operator # <<>>) =>
        LET Keeps(item) ==
                /\ item.k = "dict"
                /\ \E i \in 1..Len(item.v) :
                      /\ item.v[i][1] = loc.key
                      /\ check_condition(item.v[i][2], loc.operator,
                                         loc.parsed_value)
        IN  CASE arg.data.k = "list" ->
                    ret.k = "list" /\ ret.v = SelectSeq(arg.data.v, Keeps)
              [] arg.data.k = "dict" ->
                    IF Keeps(arg.data) THEN ret = arg.data ELSE IsNone(ret)
              [] OTHER -> IsNone(ret)

\* C4 witness: a Sequence of which an element is kept and another is not.
C4_Witness ==
    /\ pc = "filtered"
    /\ loc.operator # <<>>
    /\ arg.data.k = "list"
    /\ ret.k = "list"
    /\ ret.v # <<>>
    /\ Len(ret.v) < Len(arg.data.v)

OpChars == {"=", "!", ">", "<", "~"}

NoOpChar(s) == \A i \in 1..Len(s) : s[i] \notin OpChars

\* C8: the operators are tried in the order ==, !=, >=, <=, >, <, ~; the first
\* of them that occurs in the filter string is chosen, the string is split at
\* its first occurrence, and key and raw value are the trimmed parts; so
\* `key OP literal` with no operator character in key and literal parses to
\* OP for each of the seven operators, and "age > 25" to (age, >, 25).
C8_OperatorSelection ==
    (pc = "filtered" /\ arg.filter_expr # <<>>) =>
        LET e == arg.filter_expr
            order == << <<"=", "=">>, <<"!", "=">>, <<">", "=">>, <<"<", "=">>,
                        <<">">>, <<"<">>, <<"~">> >>
            present == {i \in 1..7 : Contains(e, order[i])}
            op == order[Min(present)]
            at == Min(Occurrences(e, op))
        IN  /\ present = {} => loc.operator = <<>>
            /\ present # {} =>
                  /\ loc.operator = op
                  /\ loc.key = Strip(Slice(e, 0, at))
                  /\ loc.value = Strip(Slice(e, at + Len(op), Len(e)))
            /\ \A key \in FilterKeys, raw \in FilterRaws, sp \in Spacings,
                  i \in 1..7 :
                  (NoOpChar(key) /\ NoOpChar(raw)
                      /\ e = key \o sp \o order[i] \o sp \o raw) =>
                      /\ loc.operator = order[i]
                      /\ loc.key = key
                      /\ loc.value = raw
            /\ e = <<"a", "g", "e", " ", ">", " ", "2", "5">> =>
                  /\ loc.key = <<"a", "g", "e">>
                  /\ loc.operator = <<">">>
                  /\ loc.parsed_value = PyInt(25)

\* C8 witness: a two-character operator whose one-character prefix comes later
\* in the order.
C8_Witness ==
    /\ pc = "filtered"
    /\ arg.filter_expr = <<"a", "g", "e", " ", ">", "=", " ", "2", "5">>
    /\ loc.operator = <<">", "=">>
    /\ loc.parsed_value = PyInt(25)

(***************************************************************************)
(* check_condition on every pair of values (lines 291, 295 call it).       *)
(***************************************************************************)
CondValues ==
    { None, PyBool(TRUE), PyBool(FALSE), PyInt(0), PyInt(1), PyInt(2),
      PyFloat(15, 1), PyFloat(10, 1), PyStr(<<"a">>), PyStr(<<"a", "b">>),
      PyStr(<<"1">>), PyStr(<<>>), PyList(<<>>), PyList(<<PyInt(1)>>),
      PyList(<<PyStr(<<"a">>)>>), PyDict(<<>>),
      PyDict(<<<<KeyA, PyInt(1)>>>>) }

InitCondition ==
    /\ pc = "condition"
    /\ arg \in [item_value : CondValues, operator : Range(operators),
                filter_value : CondValues]
    /\ loc = <<>>
    /\ ret = None

\* The bool returned, or the exception raised.
Outcome(r) ==
    IF r \in {"True", "False"} THEN PyBool(r = "True") ELSE [k |-> "raise", v |-> r]

CheckCondition ==
    /\ pc = "condition"
    /\ ret' = Outcome(check_condition_outcome(arg.item_value, arg.operator,
                                              arg.filter_value))
    /\ pc' = "checked"
    /\ UNCHANGED <<arg, loc>>

NextCondition == CheckCondition

SpecCondition == InitCondition /\ [][NextCondition]_vars

\* The kind of a Value: an int and a float are both Numbers.
Kind(x) == IF x.k \in {"int", "float"} THEN "number" ELSE x.k

\* C5: check_condition returns a boolean and never raises a type error; an
\* ordering comparison between values of different kinds, other than integer
\* against float, is false; `~` is false unless both sides are strings.
C5_MismatchIsFalse ==
    pc = "checked" =>
        /\ ret.k = "bool"
        /\ (/\ arg.operator \in {<<">">>, <<"<">>, <<">", "=">>, <<"<", "=">>}
            /\ Kind(arg.item_value) # Kind(arg.filter_value)) => ret = PyBool(FALSE)
        /\ (/\ arg.operator = <<"~">>
            /\ ~(arg.item_value.k = "str" /\ arg.filter_value.k = "str"))
               => ret = PyBool(FALSE)

(***************************************************************************)
(* parse_filter_value on raw literals (line 283 calls it).                 *)
(***************************************************************************)
LiteralWords ==
    { WordTrue, <<"T", "r", "u", "e">>, <<"T", "R", "U", "E">>,
      WordFalse, <<"F", "a", "l", "s", "e">>, <<"F", "A", "L", "S", "E">>,
      WordNull, <<"N", "U", "L", "L">>, WordNone, <<"N", "o", "n", "e">>,
      <<"2", "5">>, <<"-", "3">>, <<"+", "3">>, <<"0">>, <<"0", "7">>,
      <<"2", ".", "5">>, <<"-", "2", ".", "5">>, <<"1", ".">>, <<".", "5">>,
      <<"1", ".", "0">>, <<"1", ".", "2", "5">>, <<".">>, <<"1", ".", "2", ".", "3">>,
      <<"1", "e", "5">>, <<"-">>, <<"2", "5", "x">>, <<"2", " ", "5">>,
      <<>>, <<"x">>, <<"a", "b", "c">>, <<"y", "e", "s">>, <<"t", "r", "u", "e", "r">>,
      <<"\"", "x", "\"">>, <<"'", "x", "'">>, <<"\"", "x", "'">>, <<"\"", "x">>,
      <<"\"", "\"">>, <<"\"">>, <<"'">>, <<"\"", "t", "r", "u", "e", "\"">>,
      <<"'", "2", "5", "'">>, <<"\"", " ", "x", " ", "\"">>,
      <<"'", "N", "o", "n", "e", "'">>, <<"x", ".", "y">> }

Paddings == {<<>>, <<" ">>}

RawLiterals ==
    {before \o w \o after : before \in Paddings, w \in LiteralWords,
                            after \in Paddings}

InitLiteral ==
    /\ pc = "literal"
    /\ arg \in [value : RawLiterals]
    /\ loc = <<>>
    /\ ret = None

ParseFilterValue ==
    /\ pc = "literal"
    /\ ret' = parse_filter_value(arg.value)
    /\ pc' = "coerced"
    /\ UNCHANGED <<arg, loc>>

NextLiteral == ParseFilterValue

SpecLiteral == InitLiteral /\ [][NextLiteral]_vars

(***************************************************************************)
(* Claims about parse_filter_value.                                        *)
(***************************************************************************)
\* The text between the first and the last character.
Inner(t) == [i \in 1..(Len(t) - 2) |-> t[i + 1]]

\* The literal the rules give the trimmed raw value t, the first rule that
\* matches deciding: quotes, boolean, null, integer, float, raw string.  The
\* boolean words are matched as written (exactBool) or in any letter case.
Coerced(t, exactBool) ==
    LET folded == [i \in 1..Len(t) |-> LowerChar(t[i])]
        boolWord == IF exactBool THEN t ELSE folded
    IN  IF Len(t) >= 1 /\ t[1] \in {"\"", "'"} /\ t[Len(t)] = t[1]
        THEN PyStr(Inner(t))
        ELSE IF boolWord = <<"t", "r", "u", "e">> THEN PyBool(TRUE)
        ELSE IF boolWord = <<"f", "a", "l", "s", "e">> THEN PyBool(FALSE)
        ELSE IF folded \in {<<"n", "u", "l", "l">>, <<"n", "o", "n", "e">>} THEN None
        ELSE IF ~Contains(t, <<".">>) /\ IntParses(t) THEN PyInt(IntOf(t))
        ELSE IF Contains(t, <<".">>) /\ FloatParses(t) THEN FloatOf(t)
        ELSE PyStr(t)

\* C7 as stated: the first matching rule decides, and only `true` and `false`
\* in lowercase are booleans (`True` and `TRUE` are not).
C7_LiteralCoercion ==
    pc = "coerced" => ret = Coerced(Strip(arg.value), TRUE)

\* C7 amended: the first matching rule decides: quotes; `true` or `false` in
\* any letter case; `null` or `none` in any letter case; without a '.', an
\* integer literal; with a '.', a float literal; else the raw string.
C7_LiteralCoercionAnyCase ==
    pc = "coerced" =>
        /\ ret = Coerced(Strip(arg.value), FALSE)
        /\ arg.value = <<"2", "5">> => ret = [k |-> "int", v |-> 25]
        /\ arg.value = <<"2", ".", "5">> => ret = [k |-> "float", v |-> <<25, 1>>]
        /\ arg.value = <<"t", "r", "u", "e">> => ret = [k |-> "bool", v |-> TRUE]
        /\ arg.value = <<"T", "R", "U", "E">> => ret = [k |-> "bool", v |-> TRUE]
        /\ arg.value = <<"N", "o", "n", "e">> => ret = [k |-> "null", v |-> 0]
        /\ arg.value = <<"\"", "t", "r", "u", "e", "\"">>
               => ret = [k |-> "str", v |-> <<"t", "r", "u", "e">>]
        /\ arg.value = <<"1", "e", "5">> => ret = [k |-> "str", v |-> <<"1", "e", "5">>]

\* C7 witness: a boolean word that is not in lowercase has been coerced.
C7_Witness ==
    /\ pc = "coerced"
    /\ arg.value = <<"T", "r", "u", "e">>
    /\ ret = PyBool(TRUE)

(***************************************************************************)
(* parse_query_path on path strings.                                       *)
(***************************************************************************)
PathAlphabet == {"a", ".", "[", "]", "*", "1", "-"}

\* data.users[0].name
PathExample1 ==
    <<"d", "a", "t", "a", ".", "u", "s", "e", "r", "s", "[", "0", "]", ".",
      "n", "a", "m", "e">>

\* items[*]
PathExample2 == <<"i", "t", "e", "m", "s", "[", "*", "]">>

PathStrings ==
    SeqsUpTo(PathAlphabet, MaxPathChars)
    \cup { PathExample1, PathExample2, <<"a", "[", " ", "1", " ", "]">>,
           <<"a", "[", "+", "1", "]", "[", "b", "]", "c">> }

InitPath ==
    /\ pc = "query"
    /\ arg \in [data : {None}, query : PathStrings]
    /\ loc = <<>>
    /\ ret = None

NextPath == ParsePath

SpecPath == InitPath /\ [][NextPath]_vars

Field(name) == PyStr(name)

Index(n) == PyInt(n)

\* The component of a pending identifier, if there is one.
Pending(ident) == IF ident = <<>> THEN <<>> ELSE <<Field(ident)>>

\* The component of a bracket's content.
Bracket(content) ==
    IF content = <<"*">> THEN Wildcard
    ELSE IF IntParses(content) THEN Index(IntOf(content))
    ELSE Field(content)

RECURSIVE Scan(_, _)
\* The components of the rest s of a path, ident being the identifier
\* accumulated so far.
Scan(s, ident) ==
    IF s = <<>> THEN Pending(ident)
    ELSE IF Head(s) = "." THEN Pending(ident) \o Scan(Tail(s), <<>>)
    ELSE IF Head(s) = "["
    THEN LET body == Tail(s)
             closes == {n \in 1..Len(body) : body[n] = "]"}
             content == IF closes = {} THEN body
                        ELSE SubSeq(body, 1, Min(closes) - 1)
             after == IF closes = {} THEN <<>>
                      ELSE SubSeq(body, Min(closes) + 1, Len(body))
         IN  Pending(ident) \o <<Bracket(content)>> \o Scan(after, <<>>)
    ELSE Scan(Tail(s), Append(ident, Head(s)))

\* C9: one left-to-right scan, components in source order: `.` flushes a
\* non-empty identifier as a Field; `[` flushes, reads up to the next `]` or to
\* the end, and gives Wildcard for `*`, Index for an integer, else Field; any
\* other character is accumulated; the end flushes a non-empty identifier.
C9_PathScan ==
    pc = "parsed" =>
        /\ loc.path = Scan(arg.query, <<>>)
        /\ arg.query = PathExample1 =>
              loc.path = <<Field(<<"d", "a", "t", "a">>),
                           Field(<<"u", "s", "e", "r", "s">>), Index(0),
                           Field(<<"n", "a", "m", "e">>)>>
        /\ arg.query = PathExample2 =>
              loc.path = <<Field(<<"i", "t", "e", "m", "s">>), Wildcard>>

\* C9 witness: a path with identifiers, dots and a bracket has been parsed.
C9_Witness ==
    /\ pc = "parsed"
    /\ arg.query = PathExample1
    /\ Len(loc.path) = 4
    /\ loc.path[3] = Index(0)

(***************************************************************************)
(* calculate_stats                                                         *)
(***************************************************************************)
RECURSIVE collect_numbers(_)
RECURSIVE CollectEach(_, _)

\* lines 389-390, 392-393: the numbers of the values from the i-th on
CollectEach(values, i) ==
    IF i > Len(values) THEN <<>>
    ELSE collect_numbers(values[i]) \o CollectEach(values, i + 1)

\* lines 385-393: the numbers appended to `numbers` by collect_numbers(obj)
collect_numbers(obj) ==
    IF IsNumber(obj) THEN <<obj>>
    ELSE IF obj.k = "dict"
    THEN CollectEach([i \in 1..Len(obj.v) |-> obj.v[i][2]], 1)
    ELSE IF obj.k = "list" THEN CollectEach(obj.v, 1)
    ELSE <<>>

Max(S) == CHOOSE x \in S : \A y \in S : x >= y

\* x + y: a float if either is, else an int
NumAdd(x, y) ==
    LET e == Max({NumVal(x)[2], NumVal(y)[2]})
        m == NumVal(x)[1] * Pow10(e - NumVal(x)[2])
               + NumVal(y)[1] * Pow10(e - NumVal(y)[2])
    IN  IF x.k = "float" \/ y.k = "float" THEN PyFloat(m, e) ELSE PyInt(m)

RECURSIVE SumFrom(_, _, _)
\* sum(numbers): the items from the i-th on added to the total
SumFrom(numbers, i, total) ==
    IF i > Len(numbers) THEN total
    ELSE SumFrom(numbers, i + 1, NumAdd(total, numbers[i]))

PySum(numbers) == SumFrom(numbers, 1, PyInt(0))

RECURSIVE MinFrom(_, _, _)
\* min(numbers): the first smallest item
MinFrom(numbers, i, best) ==
    IF i > Len(numbers) THEN best
    ELSE MinFrom(numbers, i + 1,
                 IF NumLess(numbers[i], best) THEN numbers[i] ELSE best)

PyMin(numbers) == MinFrom(numbers, 2, numbers[1])

RECURSIVE MaxFrom(_, _, _)
\* max(numbers): the first largest item
MaxFrom(numbers, i, best) ==
    IF i > Len(numbers) THEN best
    ELSE MaxFrom(numbers, i + 1,
                 IF NumLess(best, numbers[i]) THEN numbers[i] ELSE best)

PyMax(numbers) == MaxFrom(numbers, 2, numbers[1])

\* line 398
NoNumbers == [error |-> "No numeric values found"]

\* lines 395-406; avg, the float sum/count, is kept as the pair <<sum, count>>
stats_of(numbers) ==
    IF numbers = <<>> THEN NoNumbers
    ELSE [count |-> Len(numbers),
          sum |-> PySum(numbers),
          avg |-> <<PySum(numbers), Len(numbers)>>,
          min |-> PyMin(numbers),
          max |-> PyMax(numbers)]

calculate_stats(data) == stats_of(collect_numbers(data))

\* [1, 2.5, {"a": 3}, [4]]
StatsExample ==
    PyList(<<PyInt(1), PyFloat(25, 1), PyDict(<<<<KeyA, PyInt(3)>>>>),
             PyList(<<PyInt(4)>>)>>)

StatsLeaves ==
    {None, PyBool(TRUE), PyInt(1), PyInt(4), PyFloat(25, 1), PyStr(<<"x">>)}

StatsItems ==
    StatsLeaves
    \cup { PyDict(<<<<KeyA, PyInt(3)>>>>), PyList(<<PyInt(4)>>), PyList(<<>>),
           PyDict(<<<<KeyB, PyInt(2)>>, <<KeyA, PyFloat(5, 1)>>>>),
           PyDict(<<<<KeyA, PyStr(<<"x">>)>>, <<KeyB, None>>>>),
           PyList(<<PyStr(<<"1">>), PyInt(-1)>>) }

StatsDocs ==
    StatsItems
    \cup {PyList(s) : s \in SeqsUpTo(StatsItems, MaxLen)}
    \cup {PyDict(<<<<KeyA, x>>>>) : x \in StatsItems}
    \cup {StatsExample}

\* main, lines 581-582
InitStats ==
    /\ pc = "stats"
    /\ arg \in [data : StatsDocs]
    /\ loc = <<>>
    /\ ret = None

CalculateStats ==
    /\ pc = "stats"
    /\ loc' = [numbers |-> collect_numbers(arg.data)]
    /\ ret' = calculate_stats(arg.data)
    /\ pc' = "stats_done"
    /\ UNCHANGED arg

NextStats == CalculateStats

SpecStats == InitStats /\ [][NextStats]_vars

RECURSIVE NumberLeaves(_)
\* The Number leaves (integer or float) of a value, depth first, Mapping
\* values in stored order and Sequence elements in index order.
NumberLeaves(v) ==
    LET children == IF v.k = "dict" THEN [i \in 1..Len(v.v) |-> v.v[i][2]]
                    ELSE IF v.k = "list" THEN v.v
                    ELSE <<>>
        Leaves2[i \in 0..Len(children)] ==
            IF i = 0 THEN <<>> ELSE Leaves2[i - 1] \o NumberLeaves(children[i])
    IN  IF v.k \in {"int", "float"} THEN <<v>> ELSE Leaves2[Len(children)]

\* C10: the collected sequence is exactly the Number leaves of the value in
\* depth-first order, Bool, String and Null leaves never being collected;
\* count, sum, min and max are computed over it; when it is empty the result
\* is the "no numeric values" error.
C10_NumberLeavesOnly ==
    pc = "stats_done" =>
        LET numbers == NumberLeaves(arg.data)
        IN  /\ loc.numbers = numbers
            /\ \A i \in 1..Len(loc.numbers) :
                  loc.numbers[i].k \notin {"bool", "str", "null"}
            /\ IF numbers = <<>> THEN DOMAIN ret = {"error"}
               ELSE /\ ret.count = Len(numbers)
                    /\ ret.sum = PySum(numbers)
                    /\ ret.min = PyMin(numbers)
                    /\ ret.max = PyMax(numbers)

(***************************************************************************)
(* YAMLParser                                                              *)
(***************************************************************************)
\* lines 125-152
YAMLParser_parse_value(raw) ==
    LET Typed(value, low) ==
            IF low \in {WordTrue, <<"y", "e", "s">>, <<"o", "n">>} THEN PyBool(TRUE)
            ELSE IF low \in {WordFalse, <<"n", "o">>, <<"o", "f", "f">>}
            THEN PyBool(FALSE)
            ELSE IF low \in {WordNull, WordNone, <<"~">>} THEN None
            ELSE IF Contains(value, <<".">>) /\ FloatParses(value)
            THEN FloatOf(value)
            ELSE IF ~Contains(value, <<".">>) /\ IntParses(value)
            THEN PyInt(IntOf(value))
            ELSE IF IsQuoted(value) THEN PyStr(Slice(value, 1, Len(value) - 1))
            ELSE PyStr(value)
    IN  \* value = raw.strip() is computed once (line 127)
        CHOOSE typed \in {Typed(value, Lower(value)) : value \in {Strip(raw)}} : TRUE

ColonSpace == <<":", " ">>

DashSpace == <<"-", " ">>

\* line 67
Indent(line) == Len(line) - Len(LStrip(line))

\* line 62
BlankOrComment(line) == Strip(line) = <<>> \/ StartsWith(Strip(line), <<"#">>)

\* lines 89-100: a list item; the locals after it
ListItemLine(stripped, st) ==
    LET Item(value) ==
            IF Contains(value, ColonSpace)
            THEN PyDict(<<<<Split1(value, ColonSpace)[1],
                            YAMLParser_parse_value(Split1(value, ColonSpace)[2])>>>>)
            ELSE YAMLParser_parse_value(value)
    IN  \* value is computed once (line 91)
        CHOOSE next \in {[st EXCEPT !.in_list = TRUE,
                                    !.current_list = Append(@, Item(value)),
                                    !.i = @ + 1] :
                            value \in {Strip(Slice(stripped, 2, Len(stripped)))}} : TRUE

\* Mutant of KeyValueLine: the i += 1 of line 114 is missing.
KeyValueLineStays(stripped, st) ==
    LET Store(key, value) ==
            IF value # <<>>
            THEN [st EXCEPT !.result = DictSet(@, key, YAMLParser_parse_value(value))]
            ELSE [st EXCEPT !.current_key = key]
    IN  \* key and value are computed once (lines 104-106)
        CHOOSE next \in {Store(key, value) :
                            key \in {Strip(Split1(stripped, ColonSpace)[1])},
                            value \in {Strip(Split1(stripped, ColonSpace)[2])}} : TRUE

\* lines 103-115: a key-value pair; the locals after it
KeyValueLine(stripped, st) ==
    LET Store(key, value) ==
            IF value # <<>>
            THEN [st EXCEPT !.result = DictSet(@, key, YAMLParser_parse_value(value)),
                            !.i = @ + 1]
            ELSE [st EXCEPT !.current_key = key, !.i = @ + 1]
    IN  \* key and value are computed once (lines 104-106)
        CHOOSE next \in {Store(key, value) :
                            key \in {Strip(Split1(stripped, ColonSpace)[1])},
                            value \in {Strip(Split1(stripped, ColonSpace)[2])}} : TRUE

RECURSIVE YAMLParser_parse_lines(_, _)
RECURSIVE ParseLoop(_, _, _)

\* lines 59-117: one iteration of the loop at line st.i (0-based); the locals
\* after it, `done` set by the break of line 71.  current_key <<>> is None.
ParseIteration(lines, start_indent, st) ==
    LET line == lines[st.i + 1]
        indent == Indent(line)
        stripped == Strip(line)
        nested == YAMLParser_parse_lines(Slice(lines, st.i, Len(lines)), indent)
    IN  IF BlankOrComment(line) THEN [st EXCEPT !.i = @ + 1]
        ELSE IF indent < start_indent THEN [st EXCEPT !.done = TRUE]
        ELSE IF indent > start_indent
        THEN IF st.current_key # <<>>
             THEN [st EXCEPT !.result = DictSet(@, st.current_key, nested[1]),
                             !.i = @ + nested[2],
                             !.current_key = <<>>]
             ELSE [st EXCEPT !.i = @ + 1]
        ELSE IF StartsWith(stripped, DashSpace) THEN ListItemLine(stripped, st)
        ELSE IF Contains(stripped, ColonSpace) THEN KeyValueLine(stripped, st)
        ELSE [st EXCEPT !.i = @ + 1]

\* lines 58-122: the loop from the locals st on, and the return value
ParseLoop(lines, start_indent, st) ==
    IF st.i < Len(lines) /\ ~st.done
    THEN ParseLoop(lines, start_indent, ParseIteration(lines, start_indent, st))
    ELSE IF st.in_list THEN <<PyList(st.current_list), st.i>>
    ELSE <<IF st.result.v # <<>> THEN st.result ELSE None, st.i>>

\* lines 50-122: <<value, lines consumed>>
YAMLParser_parse_lines(lines, start_indent) ==
    ParseLoop(lines, start_indent,
              [result |-> PyDict(<<>>), current_list |-> <<>>,
               current_key |-> <<>>, i |-> 0, in_list |-> FALSE, done |-> FALSE])

\* line 46
TextLines(text) == SplitAll(Strip(text), <<"\n">>)

\* lines 44-47
YAMLParser_parse(text) == YAMLParser_parse_lines(TextLines(text), 0)[1]

(***************************************************************************)
(* main, lines 529-530: the content is parsed as YAML.                     *)
(***************************************************************************)
YamlLines ==
    { <<"a", ":", " ", "1">>, <<"b", ":">>, <<"b", ":", " ">>,
      <<" ", " ", "-", " ", "x">>, <<" ", " ", "c", ":", " ", "2">>,
      <<"-", " ", "y">>, <<"#", "c">>, <<>> }

RECURSIVE JoinLines(_)
\* The text of the lines, each ended by a line feed.
JoinLines(lines) ==
    IF lines = <<>> THEN <<>>
    ELSE Head(lines) \o <<"\n">> \o JoinLines(Tail(lines))

\* name: Alice / age: 30 / tags: / (2 spaces)- x / (2 spaces)- y
YamlExample ==
    JoinLines(<< <<"n", "a", "m", "e", ":", " ", "A", "l", "i", "c", "e">>,
                 <<"a", "g", "e", ":", " ", "3", "0">>,
                 <<"t", "a", "g", "s", ":">>,
                 <<" ", " ", "-", " ", "x">>,
                 <<" ", " ", "-", " ", "y">> >>)

YamlTexts ==
    {JoinLines(ls) : ls \in SeqsUpTo(YamlLines, MaxLines)} \cup {YamlExample}

InitYaml ==
    /\ pc = "yaml"
    /\ arg \in [content : YamlTexts]
    /\ loc = <<>>
    /\ ret = None

ParseYaml ==
    /\ pc = "yaml"
    /\ loc' = [lines |-> TextLines(arg.content)]
    /\ ret' = YAMLParser_parse(arg.content)
    /\ pc' = "yaml_done"
    /\ UNCHANGED arg

NextYaml == ParseYaml

SpecYaml == InitYaml /\ [][NextYaml]_vars

\* {name: "Alice", age: 30, tags: ["x", "y"]}
YamlExampleValue ==
    PyDict(<< <<<<"n", "a", "m", "e">>, PyStr(<<"A", "l", "i", "c", "e">>)>>,
              <<<<"a", "g", "e">>, PyInt(30)>>,
              <<<<"t", "a", "g", "s">>,
                PyList(<<PyStr(<<"x">>), PyStr(<<"y">>)>>)>> >>)

\* The lines after the first are a block: none is blank or a comment, and
\* each is indented.
BlockFollows(lines) ==
    /\ Len(lines) >= 2
    /\ \A i \in 2..Len(lines) : ~BlankOrComment(lines[i]) /\ Indent(lines[i]) > 0

\* C3: a mapping line `key:` with no inline value marks the key as pending,
\* and the following block of deeper-indented lines is parsed recursively and
\* stored as the key's value; the text of name, age and tags parses to
\* {name: "Alice", age: 30, tags: ["x", "y"]}.
C3_NestedBlock ==
    pc = "yaml_done" =>
        /\ arg.content = YamlExample => ret = YamlExampleValue
        /\ (loc.lines[1] = <<"b", ":">> /\ BlockFollows(loc.lines)) =>
              /\ ret.k = "dict"
              /\ HasKey(ret, <<"b">>)
              /\ Get(ret, <<"b">>) =
                    YAMLParser_parse_lines(Tail(loc.lines),
                                           Indent(loc.lines[2]))[1]

(***************************************************************************)
(* YAMLParser._parse_lines, one loop iteration at a time.  It is called    *)
(* by parse with the lines of the text and indent 0 (line 47), and at line *)
(* 77 with the lines from a deeper-indented line on and that line's        *)
(* indent.  loc holds the call's lines, its start_indent and its locals.   *)
(***************************************************************************)
\* lines 52-56: the locals before the loop
ParseLocals ==
    [result |-> PyDict(<<>>), current_list |-> <<>>, current_key |-> <<>>,
     i |-> 0, in_list |-> FALSE, done |-> FALSE]

\* lines 119-122: <<value, lines consumed>>
ParseReturn(st) ==
    IF st.in_list THEN <<PyList(st.current_list), st.i>>
    ELSE <<IF st.result.v # <<>> THEN st.result ELSE None, st.i>>

\* The lines of a block: those of the texts, and one indented deeper.
BlockLines == YamlLines \cup {<<" ", " ", " ", " ", "d", ":", " ", "3">>}

\* The arguments of the call of line 77: the first line is the deeper-indented
\* line the caller is at (not blank, not a comment), the indent is that line's.
BlockCalls ==
    {[call |-> "_parse_lines", lines |-> ls, start_indent |-> Indent(ls[1])] :
        ls \in {b \in SeqsUpTo(BlockLines, MaxLines) :
                   /\ b # <<>>
                   /\ ~BlankOrComment(b[1])
                   /\ Indent(b[1]) > 0}}

InitYamlSteps ==
    /\ pc = "yaml_call"
    /\ arg \in {[call |-> "parse", content |-> t] : t \in YamlTexts}
               \cup BlockCalls
    /\ loc = <<>>
    /\ ret = None

\* lines 46-47 and 52-56: parse splits the text and enters _parse_lines
EnterParse ==
    /\ pc = "yaml_call"
    /\ arg.call = "parse"
    /\ loc' = [lines |-> TextLines(arg.content), start_indent |-> 0,
               st |-> ParseLocals]
    /\ pc' = "yaml_loop"
    /\ UNCHANGED <<arg, ret>>

\* lines 77 and 52-56: _parse_lines is entered for a block
EnterBlock ==
    /\ pc = "yaml_call"
    /\ arg.call = "_parse_lines"
    /\ loc' = [lines |-> arg.lines, start_indent |-> arg.start_indent,
               st |-> ParseLocals]
    /\ pc' = "yaml_loop"
    /\ UNCHANGED <<arg, ret>>

\* lines 58-117: one iteration of the loop
LoopIteration ==
    /\ pc = "yaml_loop"
    /\ loc.st.i < Len(loc.lines)
    /\ ~loc.st.done
    /\ loc' = [loc EXCEPT !.st = ParseIteration(loc.lines, loc.start_indent, @)]
    /\ UNCHANGED <<pc, arg, ret>>

\* lines 58, 71 and 119-122: the loop has ended, the value is returned
LoopReturn ==
    /\ pc = "yaml_loop"
    /\ ~(loc.st.i < Len(loc.lines) /\ ~loc.st.done)
    /\ ret' = ParseReturn(loc.st)[1]
    /\ pc' = "yaml_returned"
    /\ UNCHANGED <<arg, loc>>

NextYamlSteps == EnterParse \/ EnterBlock \/ LoopIteration \/ LoopReturn

\* The interpreter runs the loop on: no step that can be taken is put off
\* for ever.
SpecYamlSteps ==
    InitYamlSteps /\ [][NextYamlSteps]_vars /\ WF_vars(NextYamlSteps)

\* An iteration ends the loop (line 71) or moves the cursor on, by one line or
\* by the lines a block call consumed, never past the end.
CursorAdvances ==
    (pc = "yaml_loop" /\ pc' = "yaml_loop") =>
        \/ loc'.st.done /\ loc'.st.i = loc.st.i
        \/ /\ loc'.st.i >= loc.st.i + 1
           /\ loc'.st.i <= Len(loc.lines)
           /\ ~loc'.st.done

\* The call returned with the cursor at the end, or at a line that is
\* indented less than the block; a block call consumed between one line and
\* all its lines; the call of parse, with indent 0, consumed every line.
ConsumedOnReturn ==
    pc = "yaml_returned" =>
        LET i == loc.st.i
        IN  /\ i <= Len(loc.lines)
            /\ i < Len(loc.lines) =>
                  /\ ~BlankOrComment(loc.lines[i + 1])
                  /\ Indent(loc.lines[i + 1]) < loc.start_indent
            /\ arg.call = "_parse_lines" => i >= 1
            /\ arg.call = "parse" => i = Len(loc.lines)

\* C11: YAMLParser.parse terminates without raising on every text: every
\* iteration of the line loop advances the cursor by at least one line (a
\* block call consumes at least 1 and at most all of its lines), so the
\* cursor reaches the end or a line indented less than the block, and the
\* call returns; the top-level call, with indent 0, consumes every line.
C11_ParseTerminates ==
    /\ [][CursorAdvances]_vars
    /\ []ConsumedOnReturn
    /\ <>(pc = "yaml_returned")

\* C11 witness: parse returned from a text of several lines, one of them a
\* deeper-indented line, all of them consumed.
C11_Witness ==
    /\ pc = "yaml_returned"
    /\ arg.call = "parse"
    /\ Len(loc.lines) >= 3
    /\ \E n \in 1..Len(loc.lines) : Indent(loc.lines[n]) > 0
    /\ loc.st.i = Len(loc.lines)

(***************************************************************************)
(* The whole program: every operation on every input.                      *)
(***************************************************************************)
Init ==
    \/ InitQuery
    \/ InitPath
    \/ InitFilter
    \/ InitCondition
    \/ InitLiteral
    \/ InitStats
    \/ InitYaml
    \/ InitYamlSteps

Next ==
    \/ ParsePath
    \/ QueryData
    \/ FilterData
    \/ CheckCondition
    \/ ParseFilterValue
    \/ CalculateStats
    \/ ParseYaml
    \/ EnterParse
    \/ EnterBlock
    \/ LoopIteration
    \/ LoopReturn

Spec == Init /\ [][Next]_vars

====
